---- MODULE Spec2Model ----
(***************************************************************************)
(* City-planner: a browser map-drawing page.  Two revisions of App.jsx are *)
(* modelled:                                                               *)
(*   - the backend revision (src/unnamed/part_000): viewport feature sync, *)
(*     draw-event mirror and save, checked under SpecView;                 *)
(*   - the planner revision (src/src/App.jsx): export, import, mock        *)
(*     analysis and scenarios, checked under SpecApp.                      *)
(* The drawing widget (MapboxDraw) and the map are external; they are      *)
(* modelled at the level of the calls the two files make on them.          *)
(***************************************************************************)
EXTENDS Integers, Sequences, FiniteSets, TLC

(* ------------------------------ bounds -------------------------------- *)
\* longest feature list a backend response or a hand-made file carries
MaxFeatures == 2
\* number of distinct identifiers the backend hands out
NumSrvIds == 1
\* HTTP requests that may be in flight together
MaxInflight == 2
\* shapes of the user's hand the store may hold together
MaxHat == 1
\* Date.now() readings a batch may observe: 0..ClockTicks
ClockTicks == 0
\* Math.floor(Math.random()*10000) is drawn from 0..RandRange-1
RandRange == 2
\* coordinate values a complete geometry may take: 1..NumCoords
NumCoords == 2

(* ------------------------------ features ------------------------------ *)
\* An identifier is <<kind, a, b>>: "none" (undefined/null), "srv" (assigned
\* by the backend), "f" ('f_' + timestamp a + '_' + random b), "hat" (made by
\* the widget).
NoId == <<"none", 0, 0>>
SrvIds == {<<"srv", n, 0>> : n \in 1..NumSrvIds}
SynthId(t, r) == <<"f", t, r>>
HatId(n) == <<"hat", n, 0>>

\* A geometry is <<type, c>>, c its coordinates; NullGeom is JSON null.
GeomTypes == {"Point", "Polygon"}
NullGeom == <<"null", 0>>
Coords == 1..NumCoords

Feature(id, geom, props) == [id |-> id, geom |-> geom, props |-> props]

\* geometry and properties of a feature, its identifier left out
Content(f) == <<f.geom, f.props>>
Contents(fs) == [i \in 1..Len(fs) |-> Content(fs[i])]
Ids(fs) == {fs[i].id : i \in 1..Len(fs)}
Range(s) == {s[i] : i \in 1..Len(s)}

\* what the backend may return as a feature: a polygon it has or has not
\* identified, or a feature it has identified that has no geometry
BackendFeatures ==
  {Feature(i, <<"Polygon", 1>>, "zone") : i \in {NoId} \cup SrvIds}
    \cup {Feature(i, NullGeom, "zone") : i \in SrvIds}

SeqsUpTo(S, n) == UNION {[1..k -> S] : k \in 0..n}

\* a feature collection object; wf = FALSE is a body without a features array
FC(fs) == [wf |-> TRUE, features |-> fs]
BadBody == [wf |-> FALSE, features |-> <<>>]
NoSource == [wf |-> FALSE, features |-> <<>>]

(* --------------------------- the drawing widget ------------------------ *)
\* draw.getAll(): every feature of the store, in insertion order
DrawGetAll(store) == store

IndexOfId(store, id) == CHOOSE i \in 1..Len(store) : store[i].id = id

\* draw.delete(id): silent removal of one feature
DrawDelete(store, id) == SelectSeq(store, LAMBDA f : f.id # id)

\* draw.deleteAll(): silent removal of every feature
DrawDeleteAll(store) == <<>>

\* hat(): an identifier no feature of the store has
HatsIn(store) == {id \in Ids(store) : id[1] = "hat"}
FreshHat(store) ==
  HatId(CHOOSE n \in 1..Len(store) + 1 :
          /\ HatId(n) \notin Ids(store)
          /\ \A m \in 1..n - 1 : HatId(m) \in Ids(store))

\* draw.add(f): throws on a null geometry; gives a feature without identifier
\* one of hat(); replaces in place a feature that has the same
\* identifier, appends otherwise.  Result: the store and whether it threw.
DrawAdd(store, f) ==
  IF f.geom = NullGeom THEN [store |-> store, threw |-> TRUE]
  ELSE LET g == IF f.id = NoId THEN [f EXCEPT !.id = FreshHat(store)] ELSE f
       IN  IF g.id \in Ids(store)
           THEN [store |-> [store EXCEPT ![IndexOfId(store, g.id)] = g], threw |-> FALSE]
           ELSE [store |-> Append(store, g), threw |-> FALSE]

(* ------------------------------ JSON text ------------------------------ *)
\* A text is a sequence of lexemes [t, v]; v carries an identifier value.
Tok(t) == [t |-> t, v |-> NoId]
IdTok(id) == [t |-> "idval", v |-> id]
Ws == Tok(" ")

\* JSON.stringify of one feature: an undefined id is left out
FeatureText(f) ==
  <<Tok("{")>>
  \o (IF f.id = NoId THEN <<>> ELSE <<Tok("id"), IdTok(f.id)>>)
  \o <<Tok("type"), Tok("Feature"), Tok("properties"), Tok(f.props),
       Tok("geometry"), Tok(f.geom[1]), Tok(ToString(f.geom[2])), Tok("}")>>

RECURSIVE FeaturesText(_)
FeaturesText(fs) ==
  IF fs = <<>> THEN <<>> ELSE FeatureText(Head(fs)) \o FeaturesText(Tail(fs))

\* JSON.stringify(collection)
Stringify(fs) ==
  <<Tok("{"), Tok("type"), Tok("FeatureCollection"), Tok("features"), Tok("[")>>
  \o FeaturesText(fs) \o <<Tok("]"), Tok("}")>>

RECURSIVE Indent(_)
Indent(text) ==
  IF text = <<>> THEN <<>> ELSE <<Head(text), Ws>> \o Indent(Tail(text))

\* JSON.stringify(collection, null, 2): the same lexemes, white space between
StringifyPretty(fs) == Indent(Stringify(fs))

CoordOf(s) == CHOOSE c \in 0..NumCoords + 1 : ToString(c) = s
IsCoordText(s) == \E c \in 0..NumCoords + 1 : ToString(c) = s

\* one feature object starting at lexeme i: [ok, f, next]
ParseFeature(text, i) ==
  LET hasId == i + 2 <= Len(text) /\ text[i + 1].t = "id" /\ text[i + 2].t = "idval"
      j == IF hasId THEN i + 3 ELSE i + 1
      fail == [ok |-> FALSE, f |-> Feature(NoId, NullGeom, ""), next |-> i]
  IN  IF /\ i <= Len(text) /\ text[i].t = "{"
         /\ j + 7 <= Len(text)
         /\ text[j].t = "type" /\ text[j + 1].t = "Feature"
         /\ text[j + 2].t = "properties"
         /\ text[j + 4].t = "geometry"
         /\ text[j + 5].t \in GeomTypes \cup {"null"}
         /\ IsCoordText(text[j + 6].t)
         /\ text[j + 7].t = "}"
      THEN [ok |-> TRUE,
            f |-> Feature(IF hasId THEN text[i + 2].v ELSE NoId,
                          <<text[j + 5].t, CoordOf(text[j + 6].t)>>,
                          text[j + 3].t),
            next |-> j + 8]
      ELSE fail

\* the elements of an array up to its "]": [ok, fs, next]
RECURSIVE ParseFeatures(_, _, _)
ParseFeatures(text, i, acc) ==
  IF i > Len(text) THEN [ok |-> FALSE, fs |-> acc, next |-> i]
  ELSE IF text[i].t = "]" THEN [ok |-> TRUE, fs |-> acc, next |-> i + 1]
  ELSE LET r == ParseFeature(text, i)
       IN  IF r.ok THEN ParseFeatures(text, r.next, Append(acc, r.f))
           ELSE [ok |-> FALSE, fs |-> acc, next |-> i]

\* JSON.parse: ok = FALSE is a SyntaxError; member says what the parsed value
\* carries as .features: "array", "absent" (undefined), "scalar" (a truthy
\* value that is no array) or "null" (the value is null: reading .features throws)
ParseFail == [ok |-> FALSE, member |-> "absent", features |-> <<>>]
JsonParse(raw) ==
  LET text == SelectSeq(raw, LAMBDA k : k # Ws)
      n == Len(text)
  IN  IF n = 1 /\ text[1].t = "null"
      THEN [ok |-> TRUE, member |-> "null", features |-> <<>>]
      ELSE IF ~(n >= 4 /\ text[1].t = "{" /\ text[2].t = "type" /\ text[n].t = "}")
      THEN ParseFail
      ELSE IF n = 4 THEN [ok |-> TRUE, member |-> "absent", features |-> <<>>]
      ELSE IF text[4].t # "features" THEN ParseFail
      ELSE IF n = 6 /\ IsCoordText(text[5].t)
           THEN [ok |-> TRUE, member |-> "scalar", features |-> <<>>]
      ELSE IF n >= 7 /\ text[5].t = "["
           THEN LET r == ParseFeatures(text, 6, <<>>)
                IN  IF r.ok /\ r.next = n
                    THEN [ok |-> TRUE, member |-> "array", features |-> r.fs]
                    ELSE ParseFail
      ELSE ParseFail

(* ------------------------------- state --------------------------------- *)
VARIABLES
  \* shared by both revisions
  draw,          \* the widget's store (drawRef.current): features in order
  mode,          \* the widget's mode: "simple_select" or "draw_<type>"
  status,        \* the status line (useState)
  lastOp,        \* history: the handler step taken last
  effects,       \* history: what the last step did to the outside, in order
  \* backend revision (src/unnamed/part_000)
  loaded,        \* the map's load event has been handled
  sourceData,    \* data last given to the 'features' source
  viewport,      \* the map's camera bounds
  inflight,      \* HTTP requests awaiting their response
  registered,    \* the debounced moveend/zoomend handlers are registered
  timerPending,  \* the debounce timer t is armed
  fc,            \* the response object of the fetch step just taken, after line 124
  lastBody,      \* history: that response as it arrived
  answered,      \* history: the request whose body the step just taken handled
  \* planner revision (src/src/App.jsx)
  scenarios, currentScenario, analysisData, isAnalyzing, activeTool, layers,
  analysisTimer, \* the 2 s timer of analyzeNow is pending
  lastFile       \* history: the file the import step just taken has read

sharedVars == <<draw, mode, status, lastOp, effects>>
viewVars ==
  <<loaded, sourceData, viewport, inflight, registered, timerPending, fc, lastBody, answered>>
appVars == <<scenarios, currentScenario, analysisData, isAnalyzing, activeTool, layers, analysisTimer, lastFile>>
vars == <<sharedVars, viewVars, appVars>>

\* an outward effect of a handler: setStatus, alert, console.error, fetch, download
Eff(kind, text, body) == [kind |-> kind, text |-> text, body |-> body]
SetStatus(msg) == Eff("status", msg, <<>>)

(* ------------------- backend revision: helpers ------------------------- *)
Viewports ==
  {[west |-> 0, south |-> 0, east |-> 1, north |-> 1],
   [west |-> 1, south |-> 0, east |-> 2, north |-> 1]}
InitialViewport == [west |-> 0, south |-> 0, east |-> 1, north |-> 1]

\* bboxFromMap: `${west},${south},${east},${north}`
bboxFromMap(v) ==
  ToString(v.west) \o "," \o ToString(v.south) \o "," \o ToString(v.east)
    \o "," \o ToString(v.north)

FeaturesUrl(v) == "/api/features?bbox=" \o bboxFromMap(v)
SaveUrl == "/api/save"

LoadingMsg == "Loading features for viewport..."
LoadedMsg(n) == "Loaded " \o ToString(n) \o " features"
FetchFailedMsg == "Failed to load viewport features"
SavingMsg == "Saving to backend..."
SavedMsg == "Saved to backend"
SaveFailedMsg == "Save failed"
\* line 156 (its dash written as a hyphen)
SaveAlert == "Save failed - check console"

\* a request in flight: what was asked and which continuation awaits it (the
\* load handler's, line 82, which goes on to register the listeners, or a plain
\* call of fetchFeaturesForView or saveToBackend); inflight counts the requests
\* of each kind that await their response
\* latest: no viewport fetch has been issued after this request
Request(method, origin, url) ==
  [method |-> method, origin |-> origin, url |-> url, latest |-> TRUE]
Superseded(r) == [r EXCEPT !.latest = FALSE]
NoRequest == [method |-> "", origin |-> "", url |-> "", latest |-> TRUE]
FetchKinds ==
  {Request("GET", o, FeaturesUrl(v)) : o \in {"initial", "call"}, v \in Viewports}
ReqKinds ==
  FetchKinds \cup {Superseded(r) : r \in FetchKinds} \cup {Request("POST", "call", SaveUrl)}

RECURSIVE SumOver(_, _)
SumOver(f, S) ==
  IF S = {} THEN 0 ELSE LET x == CHOOSE x \in S : TRUE IN f[x] + SumOver(f, S \ {x})
InflightCount(infl) == SumOver(infl, ReqKinds)
\* a viewport fetch that is issued supersedes those in flight; nothing is aborted
Aged(infl) ==
  [k \in ReqKinds |->
     IF k.method # "GET" THEN infl[k]
     ELSE IF k.latest THEN 0
     ELSE infl[k] + infl[[k EXCEPT !.latest = TRUE]]]
AddReq(infl, r) == [(IF r.method = "GET" THEN Aged(infl) ELSE infl) EXCEPT ![r] = @ + 1]
DelReq(infl, r) == [infl EXCEPT ![r] = @ - 1]

\* variant of syncPreview: an empty feature set is not copied
syncPreviewSkippingEmpty(isLoaded, store, src) ==
  IF isLoaded /\ DrawGetAll(store) # <<>> THEN FC(DrawGetAll(store)) ELSE src

\* syncPreview: copy the widget's whole feature set into the source, if any
syncPreview(isLoaded, store, src) == IF isLoaded THEN FC(DrawGetAll(store)) ELSE src

\* the readings of Date.now() and Math.random() a batch may get: one pair per
\* feature, used only where the feature has no identifier; time does not go back
Stamps(fs) ==
  {s \in [1..Len(fs) -> (0..ClockTicks) \X (0..RandRange - 1)] :
     /\ \A i \in 1..Len(fs) : fs[i].id # NoId => s[i] = <<0, 0>>
     /\ \A i, j \in 1..Len(fs) : i < j => s[i][1] <= s[j][1] \/ fs[i].id # NoId
                                           \/ fs[j].id # NoId}

\* line 124: an undefined or null id becomes 'f_' + Date.now() + '_' + random
AssignIds(fs, s) ==
  [i \in 1..Len(fs) |->
     IF fs[i].id = NoId THEN [fs[i] EXCEPT !.id = SynthId(s[i][1], s[i][2])] ELSE fs[i]]

\* lines 118-121: draw.delete(f.id) for every feature of draw.getAll()
RECURSIVE DeleteEach(_, _)
DeleteEach(store, fs) ==
  IF fs = <<>> THEN store ELSE DeleteEach(DrawDelete(store, Head(fs).id), Tail(fs))

\* lines 122-127: try { draw.add(f) } catch {} for every feature
RECURSIVE AddEach(_, _)
AddEach(store, fs) ==
  IF fs = <<>> THEN store ELSE AddEach(DrawAdd(store, Head(fs)).store, Tail(fs))

\* lines 116-128
SyncDraw(store, fs) == AddEach(DeleteEach(store, DrawGetAll(store)), fs)

\* the steps of fetchFeaturesForView before its first await (lines 108-111)
FetchIssue(origin) ==
  /\ inflight' = AddReq(inflight, Request("GET", origin, FeaturesUrl(viewport)))
  /\ status' = LoadingMsg

FetchIssueEffects == <<SetStatus(LoadingMsg), Eff("GET", FeaturesUrl(viewport), <<>>)>>

(* ------------------- the widget's modes and user gestures -------------- *)
\* The widget is modelled by its store and its mode.  A shape exists in the
\* store from the gesture that completes it; what the widget holds of a shape
\* while it is being drawn is not modelled.
DrawMode(type) == "draw_" \o type
TypeOfMode(m) == CHOOSE t \in GeomTypes : DrawMode(t) = m

\* the shape the user completes in the current drawing mode, with coordinates c
DrawnShape(c) == Feature(FreshHat(draw), <<TypeOfMode(mode), c>>, "{}")

(* ------------------- backend revision: handlers ------------------------ *)
ViewFrame == UNCHANGED appVars

\* a step that processes no response
NoResponse == fc' = FC(<<>>) /\ lastBody' = FC(<<>>) /\ answered' = NoRequest

\* variant of MapLoad: the settle handlers are registered before the initial
\* fetch is awaited
MapLoadRegistering ==
  /\ ~loaded
  /\ InflightCount(inflight) < MaxInflight
  /\ loaded' = TRUE
  /\ sourceData' = FC(<<>>)
  /\ FetchIssue("initial")
  /\ effects' = FetchIssueEffects
  /\ registered' = TRUE
  /\ lastOp' = "mapLoad"
  /\ UNCHANGED <<draw, mode, viewport, timerPending>>
  /\ NoResponse
  /\ ViewFrame

\* map.on("load"), lines 53-82: add the empty source, start the initial fetch
MapLoad ==
  /\ ~loaded
  /\ InflightCount(inflight) < MaxInflight
  /\ loaded' = TRUE
  /\ sourceData' = FC(<<>>)
  /\ FetchIssue("initial")
  /\ effects' = FetchIssueEffects
  /\ lastOp' = "mapLoad"
  /\ UNCHANGED <<draw, mode, viewport, registered, timerPending>>
  /\ NoResponse
  /\ ViewFrame

\* lines 84-87 run when the initial fetch has settled, whatever its outcome
RegisteredAfter(r) == registered \/ r.origin = "initial"

\* variant of GetOk: the response of a superseded fetch is dropped
GetOkLatestOnly(r, body, s) ==
  /\ r.method = "GET" /\ inflight[r] > 0
  /\ inflight' = DelReq(inflight, r)
  /\ sourceData' = IF loaded /\ r.latest THEN FC(body) ELSE sourceData
  /\ draw' = IF r.latest THEN SyncDraw(draw, AssignIds(body, s)) ELSE draw
  /\ fc' = FC(AssignIds(body, s))
  /\ lastBody' = FC(body)
  /\ answered' = r
  /\ status' = LoadedMsg(Len(body))
  /\ effects' = <<SetStatus(LoadedMsg(Len(body)))>>
  /\ registered' = RegisteredAfter(r)
  /\ lastOp' = "getOk"
  /\ UNCHANGED <<mode, loaded, viewport, timerPending>>
  /\ ViewFrame

\* a GET answered with a success status and a feature collection: lines 113-129
GetOk(r, body, s) ==
  /\ r.method = "GET" /\ inflight[r] > 0
  /\ inflight' = DelReq(inflight, r)
  /\ sourceData' = IF loaded THEN FC(body) ELSE sourceData
  /\ draw' = SyncDraw(draw, AssignIds(body, s))
  /\ fc' = FC(AssignIds(body, s))
  /\ lastBody' = FC(body)
  /\ answered' = r
  /\ status' = LoadedMsg(Len(body))
  /\ effects' = <<SetStatus(LoadedMsg(Len(body)))>>
  /\ registered' = RegisteredAfter(r)
  /\ lastOp' = "getOk"
  /\ UNCHANGED <<mode, loaded, viewport, timerPending>>
  /\ ViewFrame

\* a GET answered with a success status and a body without a features array:
\* setData and the delete loop run, then fc.features.length throws (line 129)
GetMalformed(r) ==
  /\ r.method = "GET" /\ inflight[r] > 0
  /\ inflight' = DelReq(inflight, r)
  /\ sourceData' = IF loaded THEN BadBody ELSE sourceData
  /\ draw' = DeleteEach(draw, DrawGetAll(draw))
  /\ fc' = BadBody
  /\ lastBody' = BadBody
  /\ answered' = r
  /\ status' = FetchFailedMsg
  /\ effects' = <<Eff("log", "fetchFeaturesForView error:", <<>>), SetStatus(FetchFailedMsg)>>
  /\ registered' = RegisteredAfter(r)
  /\ lastOp' = "getMalformed"
  /\ UNCHANGED <<mode, loaded, viewport, timerPending>>
  /\ ViewFrame

\* variant of GetFail: the failure is noticed only after the delete loop
GetFailAfterClearing(r, why) ==
  /\ r.method = "GET" /\ inflight[r] > 0
  /\ why \in {"transport", "http", "badjson"}
  /\ inflight' = DelReq(inflight, r)
  /\ draw' = DeleteEach(draw, DrawGetAll(draw))
  /\ status' = FetchFailedMsg
  /\ effects' = <<Eff("log", "fetchFeaturesForView error:", <<>>), SetStatus(FetchFailedMsg)>>
  /\ registered' = RegisteredAfter(r)
  /\ lastOp' = "getFail"
  /\ UNCHANGED <<mode, loaded, sourceData, viewport, timerPending>>
  /\ NoResponse
  /\ ViewFrame

\* variant of GetFail: a failed fetch is tried again
GetFailRetrying(r, why) ==
  /\ r.method = "GET" /\ inflight[r] > 0
  /\ why \in {"transport", "http", "badjson"}
  /\ inflight' = AddReq(DelReq(inflight, r), Request("GET", "call", FeaturesUrl(viewport)))
  /\ status' = LoadingMsg
  /\ effects' = <<Eff("log", "fetchFeaturesForView error:", <<>>), SetStatus(FetchFailedMsg),
                  SetStatus(LoadingMsg), Eff("GET", FeaturesUrl(viewport), <<>>)>>
  /\ registered' = RegisteredAfter(r)
  /\ lastOp' = "getFail"
  /\ UNCHANGED <<draw, mode, loaded, sourceData, viewport, timerPending>>
  /\ NoResponse
  /\ ViewFrame

\* a GET that fails before line 114: fetch rejects ("transport"), the status
\* is not ok ("http"), or res.json() rejects ("badjson"); lines 130-133
FailKinds == {"transport", "http", "badjson"}
GetFail(r, why) ==
  /\ r.method = "GET" /\ inflight[r] > 0
  /\ why \in FailKinds
  /\ inflight' = DelReq(inflight, r)
  /\ status' = FetchFailedMsg
  /\ effects' = <<Eff("log", "fetchFeaturesForView error:", <<>>), SetStatus(FetchFailedMsg)>>
  /\ registered' = RegisteredAfter(r)
  /\ lastOp' = "getFail"
  /\ UNCHANGED <<draw, mode, loaded, sourceData, viewport, timerPending>>
  /\ NoResponse
  /\ ViewFrame

\* variant of SettleEvent: the handler fetches at once instead of arming a timer
SettleEventLeading(ev, v) ==
  /\ v \in Viewports
  /\ viewport' = v
  /\ IF registered /\ InflightCount(inflight) < MaxInflight
     THEN /\ inflight' = AddReq(inflight, Request("GET", "call", FeaturesUrl(v)))
          /\ status' = LoadingMsg
          /\ effects' = <<SetStatus(LoadingMsg), Eff("GET", FeaturesUrl(v), <<>>)>>
     ELSE /\ UNCHANGED <<inflight, status>>
          /\ effects' = <<>>
  /\ lastOp' = ev
  /\ UNCHANGED <<draw, mode, loaded, sourceData, registered, timerPending>>
  /\ NoResponse
  /\ ViewFrame

\* the map settles on viewport v and fires ev; the debounced handler, once
\* registered, clears the pending timer and arms a new one (lines 12-15)
SettleEvent(ev, v) ==
  /\ v \in Viewports
  /\ viewport' = v
  /\ timerPending' = (registered \/ timerPending)
  /\ effects' = IF registered THEN <<Eff("timer", "250", <<>>)>> ELSE <<>>
  /\ lastOp' = ev
  /\ UNCHANGED <<draw, mode, status, loaded, sourceData, inflight,
                 registered>>
  /\ NoResponse
  /\ ViewFrame

MoveEnd(v) == SettleEvent("moveend", v)
ZoomEnd(v) == SettleEvent("zoomend", v)

\* the debounce timer fires: fetchFeaturesForView(map, draw)
TimerFire ==
  /\ timerPending
  /\ InflightCount(inflight) < MaxInflight
  /\ timerPending' = FALSE
  /\ FetchIssue("call")
  /\ effects' = FetchIssueEffects
  /\ lastOp' = "timerFire"
  /\ UNCHANGED <<draw, mode, loaded, sourceData, viewport, registered>>
  /\ NoResponse
  /\ ViewFrame

\* variant of SaveClick: an empty layer is not sent
SaveClickSkippingEmpty ==
  /\ InflightCount(inflight) < MaxInflight
  /\ IF DrawGetAll(draw) = <<>>
     THEN /\ UNCHANGED inflight
          /\ status' = SavedMsg
          /\ effects' = <<SetStatus(SavedMsg)>>
     ELSE /\ inflight' = AddReq(inflight, Request("POST", "call", SaveUrl))
          /\ status' = SavingMsg
          /\ effects' = <<SetStatus(SavingMsg),
                          Eff("POST", SaveUrl, Stringify(DrawGetAll(draw)))>>
  /\ lastOp' = "saveClick"
  /\ UNCHANGED <<draw, mode, loaded, sourceData, viewport, registered,
                 timerPending>>
  /\ NoResponse
  /\ ViewFrame

\* saveToBackend up to its await, lines 138-147
SaveClick ==
  /\ InflightCount(inflight) < MaxInflight
  /\ inflight' = AddReq(inflight, Request("POST", "call", SaveUrl))
  /\ status' = SavingMsg
  /\ effects' = <<SetStatus(SavingMsg), Eff("POST", SaveUrl, Stringify(DrawGetAll(draw)))>>
  /\ lastOp' = "saveClick"
  /\ UNCHANGED <<draw, mode, loaded, sourceData, viewport, registered,
                 timerPending>>
  /\ NoResponse
  /\ ViewFrame

\* variant of PostOk: the reload asks for the viewport the map started with
PostOkInitialViewport(r) ==
  /\ r.method = "POST" /\ inflight[r] > 0
  /\ inflight' = AddReq(DelReq(inflight, r),
                        Request("GET", "call", FeaturesUrl(InitialViewport)))
  /\ status' = LoadingMsg
  /\ effects' = <<SetStatus(SavedMsg), SetStatus(LoadingMsg),
                  Eff("GET", FeaturesUrl(InitialViewport), <<>>)>>
  /\ lastOp' = "postOk"
  /\ UNCHANGED <<draw, mode, loaded, sourceData, viewport, registered,
                 timerPending>>
  /\ NoResponse
  /\ ViewFrame

\* the POST is answered with a success status: lines 149-152 up to the await
PostOk(r) ==
  /\ r.method = "POST" /\ inflight[r] > 0
  /\ inflight' = AddReq(DelReq(inflight, r), Request("GET", "call", FeaturesUrl(viewport)))
  /\ status' = LoadingMsg
  /\ effects' = <<SetStatus(SavedMsg)>> \o FetchIssueEffects
  /\ lastOp' = "postOk"
  /\ UNCHANGED <<draw, mode, loaded, sourceData, viewport, registered,
                 timerPending>>
  /\ NoResponse
  /\ ViewFrame

\* variant of PostFail: the view is reloaded after a failed save as well
PostFailReloading(r, why) ==
  /\ r.method = "POST" /\ inflight[r] > 0
  /\ why \in {"transport", "http"}
  /\ inflight' = AddReq(DelReq(inflight, r), Request("GET", "call", FeaturesUrl(viewport)))
  /\ status' = SaveFailedMsg
  /\ effects' = <<Eff("log", "Save failed:", <<>>), SetStatus(SaveFailedMsg),
                  Eff("alert", SaveAlert, <<>>), Eff("GET", FeaturesUrl(viewport), <<>>)>>
  /\ lastOp' = "postFail"
  /\ UNCHANGED <<draw, mode, loaded, sourceData, viewport, registered,
                 timerPending>>
  /\ NoResponse
  /\ ViewFrame

\* the POST fails (fetch rejects or the status is not ok): lines 153-157
PostFail(r, why) ==
  /\ r.method = "POST" /\ inflight[r] > 0
  /\ why \in {"transport", "http"}
  /\ inflight' = DelReq(inflight, r)
  /\ status' = SaveFailedMsg
  /\ effects' = <<Eff("log", "Save failed:", <<>>), SetStatus(SaveFailedMsg),
                  Eff("alert", SaveAlert, <<>>)>>
  /\ lastOp' = "postFail"
  /\ UNCHANGED <<draw, mode, loaded, sourceData, viewport, registered,
                 timerPending>>
  /\ NoResponse
  /\ ViewFrame

ViewWidgetFrame ==
  /\ UNCHANGED <<status, loaded, viewport, inflight, registered, timerPending>>
  /\ NoResponse
  /\ ViewFrame

\* startPolygon / startPoint, lines 161-162
StartDrawing(type) ==
  /\ type \in {"Polygon", "Point"}
  /\ mode' = DrawMode(type)
  /\ UNCHANGED draw
  /\ effects' = <<>>
  /\ lastOp' = "startDrawing"
  /\ UNCHANGED sourceData
  /\ ViewWidgetFrame

\* stopDrawing, line 163
StopDrawing ==
  /\ mode' = "simple_select"
  /\ UNCHANGED draw
  /\ effects' = <<>>
  /\ lastOp' = "stopDrawing"
  /\ UNCHANGED sourceData
  /\ ViewWidgetFrame

\* the user finishes a shape; draw.create runs syncPreview (lines 90-95)
ViewUserCreate(c) ==
  /\ loaded /\ mode # "simple_select"
  /\ c \in Coords
  /\ Cardinality(HatsIn(draw)) < MaxHat
  /\ draw' = Append(draw, DrawnShape(c))
  /\ sourceData' = syncPreview(loaded, draw', sourceData)
  /\ mode' = "simple_select"
  /\ effects' = <<>>
  /\ lastOp' = "draw.create"
  /\ ViewWidgetFrame

\* the user moves or reshapes feature i; draw.update runs syncPreview (line 96)
ViewUserUpdate(i, c) ==
  /\ loaded /\ mode = "simple_select"
  /\ i \in 1..Len(draw) /\ c \in Coords /\ draw[i].geom[2] # c
  /\ draw' = [draw EXCEPT ![i].geom = <<draw[i].geom[1], c>>]
  /\ sourceData' = syncPreview(loaded, draw', sourceData)
  /\ effects' = <<>>
  /\ lastOp' = "draw.update"
  /\ UNCHANGED mode
  /\ ViewWidgetFrame

\* the user trashes feature i; draw.delete runs syncPreview (line 97)
ViewUserDelete(i) ==
  /\ loaded /\ mode = "simple_select"
  /\ i \in 1..Len(draw)
  /\ draw' = DrawDelete(draw, draw[i].id)
  /\ sourceData' = syncPreview(loaded, draw', sourceData)
  /\ effects' = <<>>
  /\ lastOp' = "draw.delete"
  /\ UNCHANGED mode
  /\ ViewWidgetFrame

Responses == SeqsUpTo(BackendFeatures, MaxFeatures)

NextView ==
  \/ MapLoad
  \/ \E r \in ReqKinds : \E body \in Responses : \E s \in Stamps(body) : GetOk(r, body, s)
  \/ \E r \in ReqKinds : GetMalformed(r)
  \/ \E r \in ReqKinds : \E why \in FailKinds : GetFail(r, why)
  \/ \E v \in Viewports : MoveEnd(v)
  \/ \E v \in Viewports : ZoomEnd(v)
  \/ TimerFire
  \/ SaveClick
  \/ \E r \in ReqKinds : PostOk(r)
  \/ \E r \in ReqKinds : \E why \in FailKinds : PostFail(r, why)
  \/ \E type \in GeomTypes : StartDrawing(type)
  \/ StopDrawing
  \/ \E c \in Coords : ViewUserCreate(c)
  \/ \E i \in 1..MaxFeatures + MaxHat : \E c \in Coords : ViewUserUpdate(i, c)
  \/ \E i \in 1..MaxFeatures + MaxHat : ViewUserDelete(i)

\* a file: its text, and for an artifact of handleExport the feature set it was
\* made from (history)
File(text, exported, src) == [text |-> text, exported |-> exported, src |-> src]
NoFile == File(<<>>, FALSE, <<>>)

\* analysisData: <<>> is null, <<d>> holds the payload d
NoAnalysis == <<>>
LayerIds == {"population", "floodRisk", "vegetation", "heatRisk"}

InitShared ==
  /\ draw = <<>>
  /\ mode = "simple_select"
  /\ lastOp = "init"
  /\ effects = <<>>

InitViewVars ==
  /\ loaded = FALSE
  /\ sourceData = NoSource
  /\ viewport = InitialViewport
  /\ inflight = [r \in ReqKinds |-> 0]
  /\ registered = FALSE
  /\ timerPending = FALSE
  /\ fc = FC(<<>>)
  /\ lastBody = FC(<<>>)
  /\ answered = NoRequest

InitAppVars ==
  /\ scenarios = <<"Master Plan", "Sustainable Vision">>
  /\ currentScenario = "Master Plan"
  /\ analysisData = NoAnalysis
  /\ isAnalyzing = FALSE
  /\ activeTool = "select"
  /\ layers = [l \in LayerIds |-> l # "heatRisk"]
  /\ analysisTimer = FALSE
  /\ lastFile = NoFile

InitView == InitShared /\ status = "Ready" /\ InitViewVars /\ InitAppVars

SpecView == InitView /\ [][NextView]_vars

(* ------------------- planner revision: helpers ------------------------- *)
AppInitialStatus == "Loading Tenom City Planner..."
MapReadyMsg == "Map ready - Start planning your city!"
MapErrorMsg == "Map loading failed"
DrawnMsg(n) == "Drawn " \o ToString(n) \o " objects"
UpdatedMsg(n) == "Updated " \o ToString(n) \o " objects"
RemainingMsg(n) == ToString(n) \o " objects remaining"
SelectMsg == "Select mode - click objects to edit"
DrawingMsg(tool) == "Drawing " \o tool \o " - click on map to start"
NoExportMsg == "No features to export"
ExportedMsg(n) == "Exported " \o ToString(n) \o " features"
ImportedMsg(n) == "Imported " \o ToString(n) \o " features"
ImportErrorMsg == "Error: Invalid GeoJSON file"
NoAnalyzeMsg == "Draw some features first to analyze"
AnalyzingMsg == "Analyzing your urban plan..."
AnalysisDoneMsg == "Analysis complete!"
NewScenarioMsg(name) == "New scenario: " \o name
SwitchedMsg(name) == "Switched to " \o name
ClearedMsg == "Map cleared"

\* lines 39-51
mockAnalysisData ==
  [scores |-> [environmental |-> 72, wellbeing |-> 68, economic |-> 61, hazard |-> 25],
   recommendations |->
     <<[type |-> "success", text |-> "Good green space distribution", priority |-> "low"],
       [type |-> "warning", text |-> "Consider flood drainage in northern zone",
        priority |-> "medium"],
       [type |-> "error", text |-> "High heat island effect in commercial area",
        priority |-> "high"]>>]

\* the tools of the toolbar and the geometry type each draws
\* (line_string behaves as polygon does and is left out of the checked runs)
Tools == {"select", "polygon", "point"}
TypeOfTool(tool) ==
  CASE tool = "polygon" -> "Polygon"
    [] tool = "point" -> "Point"

\* line 198
ExportName(scenario) == "tenom-plan-" \o scenario \o ".geojson"

\* files that do not come from handleExport
ForeignFeature == Feature(<<"srv", 1, 0>>, <<"Polygon", 1>>, "zone")
HandFiles ==
  {\* not JSON
   File(<<Tok("{"), Tok("type")>>, FALSE, <<>>),
   \* the JSON value null
   File(<<Tok("null")>>, FALSE, <<>>),
   \* a JSON object without a features member
   File(<<Tok("{"), Tok("type"), Tok("Feature"), Tok("}")>>, FALSE, <<>>),
   \* features is a number
   File(<<Tok("{"), Tok("type"), Tok("FeatureCollection"), Tok("features"), Tok("1"),
          Tok("}")>>, FALSE, <<>>),
   \* a collection whose second feature the widget rejects
   File(Stringify(<<ForeignFeature, Feature(NoId, NullGeom, "zone")>>), FALSE, <<>>)
  }

\* lines 217-219: draw.add(feature) for each feature, stopping at the first throw
RECURSIVE ImportEach(_, _)
ImportEach(store, fs) ==
  IF fs = <<>> THEN [store |-> store, threw |-> FALSE]
  ELSE LET r == DrawAdd(store, Head(fs))
       IN  IF r.threw THEN r ELSE ImportEach(r.store, Tail(fs))

\* the names prompt() may return besides null and ""
NewNames == {"Plan C"}
PromptAnswers == {<<>>, <<"">>} \cup {<<n>> : n \in NewNames \cup {"Master Plan"}}

(* ------------------- planner revision: handlers ------------------------ *)
AppFrame ==
  UNCHANGED <<sourceData, viewport, inflight, registered, timerPending, fc, lastBody, answered>>
AppQuiet == lastFile' = NoFile
AppWidgetSame == UNCHANGED <<draw, mode>>
AppStateSame ==
  UNCHANGED <<scenarios, currentScenario, analysisData, isAnalyzing, activeTool, layers, analysisTimer>>

\* map.on('load'), lines 114-117
AppMapLoad ==
  /\ ~loaded
  /\ loaded' = TRUE
  /\ status' = MapReadyMsg
  /\ effects' = <<SetStatus(MapReadyMsg)>>
  /\ lastOp' = "load"
  /\ AppWidgetSame /\ AppStateSame /\ AppQuiet /\ AppFrame

\* map.on('error'), lines 119-122
AppMapError ==
  /\ status' = MapErrorMsg
  /\ effects' = <<Eff("log", "Map error:", <<>>), SetStatus(MapErrorMsg)>>
  /\ lastOp' = "error"
  /\ UNCHANGED loaded
  /\ AppWidgetSame /\ AppStateSame /\ AppQuiet /\ AppFrame

\* handleToolClick, lines 154-165
handleToolClick(tool) ==
  /\ tool \in Tools
  /\ activeTool' = tool
  /\ IF tool = "select"
     THEN /\ mode' = "simple_select"
          /\ status' = SelectMsg
          /\ effects' = <<SetStatus(SelectMsg)>>
     ELSE /\ mode' = DrawMode(TypeOfTool(tool))
          /\ status' = DrawingMsg(tool)
          /\ effects' = <<SetStatus(DrawingMsg(tool))>>
  /\ UNCHANGED draw
  /\ lastOp' = "handleToolClick"
  /\ UNCHANGED <<loaded, scenarios, currentScenario, analysisData, isAnalyzing, layers, analysisTimer>>
  /\ AppQuiet /\ AppFrame

\* toggleLayer, lines 167-175
toggleLayer(layerId) ==
  /\ layerId \in LayerIds
  /\ layers' = [layers EXCEPT ![layerId] = ~@]
  /\ effects' = <<>>
  /\ lastOp' = "toggleLayer"
  /\ UNCHANGED <<loaded, status, scenarios, currentScenario, analysisData, isAnalyzing,
                 activeTool, analysisTimer>>
  /\ AppWidgetSame /\ AppQuiet /\ AppFrame

\* the user finishes a shape; draw.create, lines 124-127
AppUserCreate(c) ==
  /\ loaded /\ mode # "simple_select"
  /\ c \in Coords
  /\ Cardinality(HatsIn(draw)) < MaxHat
  /\ draw' = Append(draw, DrawnShape(c))
  /\ mode' = "simple_select"
  /\ status' = DrawnMsg(Len(draw'))
  /\ effects' = <<SetStatus(DrawnMsg(Len(draw')))>>
  /\ lastOp' = "draw.create"
  /\ UNCHANGED loaded
  /\ AppStateSame /\ AppQuiet /\ AppFrame

\* the user moves or reshapes feature i; draw.update, lines 129-132
AppUserUpdate(i, c) ==
  /\ loaded /\ mode = "simple_select"
  /\ i \in 1..Len(draw) /\ c \in Coords /\ draw[i].geom[2] # c
  /\ draw' = [draw EXCEPT ![i].geom = <<draw[i].geom[1], c>>]
  /\ status' = UpdatedMsg(Len(draw'))
  /\ effects' = <<SetStatus(UpdatedMsg(Len(draw')))>>
  /\ lastOp' = "draw.update"
  /\ UNCHANGED <<loaded, mode>>
  /\ AppStateSame /\ AppQuiet /\ AppFrame

\* the user trashes feature i; draw.delete, lines 134-137
AppUserDelete(i) ==
  /\ loaded /\ mode = "simple_select"
  /\ i \in 1..Len(draw)
  /\ draw' = DrawDelete(draw, draw[i].id)
  /\ status' = RemainingMsg(Len(draw'))
  /\ effects' = <<SetStatus(RemainingMsg(Len(draw')))>>
  /\ lastOp' = "draw.delete"
  /\ UNCHANGED <<loaded, mode>>
  /\ AppStateSame /\ AppQuiet /\ AppFrame

\* the artifact handleExport makes of the store, lines 187-198
ExportFile(store) ==
  File(StringifyPretty(DrawGetAll(store)), TRUE, DrawGetAll(store))

\* the artifacts the user may import, whenever they were exported: those
\* handleExport makes of the stores that hold drawn shapes (a point, or a
\* polygon that was reshaped) and the foreign feature, in any order
ArtifactFeatures ==
  {Feature(HatId(n), <<"Point", 1>>, "{}") : n \in 1..MaxHat}
    \cup {Feature(HatId(n), <<"Polygon", NumCoords>>, "{}") : n \in 1..MaxHat}
    \cup {ForeignFeature}
ArtifactStores ==
  {fs \in SeqsUpTo(ArtifactFeatures, MaxHat + 1) :
     fs # <<>> /\ \A i, j \in 1..Len(fs) : i # j => fs[i].id # fs[j].id}
Artifacts == {ExportFile(fs) : fs \in ArtifactStores}

\* variant of handleExport: an empty layer is exported as well
handleExportAlways ==
  /\ status' = ExportedMsg(Len(DrawGetAll(draw)))
  /\ effects' = <<Eff("download", ExportName(currentScenario), ExportFile(draw).text),
                  SetStatus(ExportedMsg(Len(DrawGetAll(draw))))>>
  /\ lastOp' = "handleExport"
  /\ UNCHANGED <<loaded, scenarios, currentScenario, analysisData, isAnalyzing, activeTool,
                 layers, analysisTimer>>
  /\ AppWidgetSame /\ AppQuiet /\ AppFrame

\* handleExport, lines 177-204
handleExport ==
  /\ IF Len(DrawGetAll(draw)) = 0
     THEN /\ status' = NoExportMsg
          /\ effects' = <<SetStatus(NoExportMsg)>>
     ELSE /\ status' = ExportedMsg(Len(DrawGetAll(draw)))
          /\ effects' = <<Eff("download", ExportName(currentScenario), ExportFile(draw).text),
                          SetStatus(ExportedMsg(Len(DrawGetAll(draw))))>>
  /\ lastOp' = "handleExport"
  /\ UNCHANGED <<loaded, scenarios, currentScenario, analysisData, isAnalyzing, activeTool,
                 layers, analysisTimer>>
  /\ AppWidgetSame /\ AppQuiet /\ AppFrame

\* variant of Imported: the features are added to what the layer holds
ImportedWithoutClearing(store, text, oldStatus) ==
  LET geoJson == JsonParse(text)
      added == ImportEach(store, geoJson.features)
      error == [store |-> store, status |-> ImportErrorMsg, said |-> TRUE]
  IN  IF ~geoJson.ok \/ geoJson.member = "null" THEN error
      ELSE IF geoJson.member = "absent"
           THEN [store |-> store, status |-> oldStatus, said |-> FALSE]
      ELSE IF geoJson.member = "scalar" THEN error
      ELSE IF added.threw THEN [error EXCEPT !.store = added.store]
      ELSE [store |-> added.store, status |-> ImportedMsg(Len(geoJson.features)),
            said |-> TRUE]

\* what reader.onload leaves, lines 212-224: the store, the status, and
\* whether setStatus was called
Imported(store, text, oldStatus) ==
  LET geoJson == JsonParse(text)
      added == ImportEach(DrawDeleteAll(store), geoJson.features)
      error == [store |-> store, status |-> ImportErrorMsg, said |-> TRUE]
  IN  IF ~geoJson.ok \/ geoJson.member = "null" THEN error
      ELSE IF geoJson.member = "absent"
           THEN [store |-> store, status |-> oldStatus, said |-> FALSE]
      ELSE IF geoJson.member = "scalar" THEN [error EXCEPT !.store = DrawDeleteAll(store)]
      ELSE IF added.threw THEN [error EXCEPT !.store = added.store]
      ELSE [store |-> added.store, status |-> ImportedMsg(Len(geoJson.features)),
            said |-> TRUE]

\* handleImport, lines 206-228: the file the user chose is read and
\* reader.onload runs on its text.  Between the choice and onload the page
\* holds nothing of the import but the file, so the two are one step here.
handleImport(file) ==
  /\ file \in HandFiles \cup Artifacts
  /\ LET r == Imported(draw, file.text, status)
     IN  /\ draw' = r.store
         /\ status' = r.status
         /\ effects' = IF r.said THEN <<SetStatus(r.status)>> ELSE <<>>
  /\ lastFile' = file
  /\ lastOp' = "handleImport"
  /\ UNCHANGED <<loaded, mode, scenarios, currentScenario, analysisData,
                 isAnalyzing, activeTool, layers, analysisTimer>>
  /\ AppFrame

\* variant of analyzeNow: the analysis starts whatever the layer holds
analyzeNowAlways ==
  /\ ~isAnalyzing
  /\ isAnalyzing' = TRUE
  /\ analysisTimer' = TRUE
  /\ status' = AnalyzingMsg
  /\ effects' = <<SetStatus(AnalyzingMsg), Eff("timer", "2000", <<>>)>>
  /\ lastOp' = "analyzeNow"
  /\ UNCHANGED <<loaded, scenarios, currentScenario, analysisData, activeTool, layers>>
  /\ AppWidgetSame /\ AppQuiet /\ AppFrame

\* analyzeNow up to its await, lines 230-244; the button is disabled while
\* isAnalyzing (line 396)
analyzeNow ==
  /\ ~isAnalyzing
  /\ IF Len(DrawGetAll(draw)) = 0
     THEN /\ status' = NoAnalyzeMsg
          /\ effects' = <<SetStatus(NoAnalyzeMsg)>>
          /\ UNCHANGED <<isAnalyzing, analysisTimer>>
     ELSE /\ isAnalyzing' = TRUE
          /\ analysisTimer' = TRUE
          /\ status' = AnalyzingMsg
          /\ effects' = <<SetStatus(AnalyzingMsg), Eff("timer", "2000", <<>>)>>
  /\ lastOp' = "analyzeNow"
  /\ UNCHANGED <<loaded, scenarios, currentScenario, analysisData, activeTool, layers>>
  /\ AppWidgetSame /\ AppQuiet /\ AppFrame

\* variant of AnalysisDone: the flag isAnalyzing is left set
AnalysisDoneKeepingFlag ==
  /\ analysisTimer
  /\ analysisTimer' = FALSE
  /\ analysisData' = <<mockAnalysisData>>
  /\ status' = AnalysisDoneMsg
  /\ effects' = <<SetStatus(AnalysisDoneMsg)>>
  /\ lastOp' = "analysisDone"
  /\ UNCHANGED <<loaded, scenarios, currentScenario, isAnalyzing, activeTool, layers>>
  /\ AppWidgetSame /\ AppQuiet /\ AppFrame

\* the 2 s timer fires: lines 245-251
AnalysisDone ==
  /\ analysisTimer
  /\ analysisTimer' = FALSE
  /\ analysisData' = <<mockAnalysisData>>
  /\ isAnalyzing' = FALSE
  /\ status' = AnalysisDoneMsg
  /\ effects' = <<SetStatus(AnalysisDoneMsg)>>
  /\ lastOp' = "analysisDone"
  /\ UNCHANGED <<loaded, scenarios, currentScenario, activeTool, layers>>
  /\ AppWidgetSame /\ AppQuiet /\ AppFrame

\* variant of createNewScenario: a name the list already holds is accepted
createNewScenarioUnchecked(answer) ==
  /\ answer \in PromptAnswers
  /\ IF answer # <<>> /\ answer # <<"">>
     THEN /\ scenarios' = Append(scenarios, answer[1])
          /\ currentScenario' = answer[1]
          /\ draw' = DrawDeleteAll(draw)
          /\ analysisData' = NoAnalysis
          /\ status' = NewScenarioMsg(answer[1])
          /\ effects' = <<SetStatus(NewScenarioMsg(answer[1]))>>
     ELSE /\ UNCHANGED <<scenarios, currentScenario, draw, analysisData, status>>
          /\ effects' = <<>>
  /\ lastOp' = "createNewScenario"
  /\ UNCHANGED <<loaded, mode, isAnalyzing, activeTool, layers, analysisTimer>>
  /\ AppQuiet /\ AppFrame

\* createNewScenario, lines 254-265; answer is what prompt() returned: <<>> is
\* null (cancelled), <<name>> a string
createNewScenario(answer) ==
  /\ answer \in PromptAnswers
  /\ IF answer # <<>> /\ answer # <<"">> /\ answer[1] \notin Range(scenarios)
     THEN /\ scenarios' = Append(scenarios, answer[1])
          /\ currentScenario' = answer[1]
          /\ draw' = DrawDeleteAll(draw)
          /\ analysisData' = NoAnalysis
          /\ status' = NewScenarioMsg(answer[1])
          /\ effects' = <<SetStatus(NewScenarioMsg(answer[1]))>>
     ELSE /\ UNCHANGED <<scenarios, currentScenario, draw, analysisData, status>>
          /\ effects' = <<>>
  /\ lastOp' = "createNewScenario"
  /\ UNCHANGED <<loaded, mode, isAnalyzing, activeTool, layers, analysisTimer>>
  /\ AppQuiet /\ AppFrame

\* switchScenario, lines 267-274; the select offers the scenarios of the list
switchScenario(scenario) ==
  /\ scenario \in Range(scenarios)
  /\ currentScenario' = scenario
  /\ analysisData' = NoAnalysis
  /\ draw' = DrawDeleteAll(draw)
  /\ status' = SwitchedMsg(scenario)
  /\ effects' = <<SetStatus(SwitchedMsg(scenario))>>
  /\ lastOp' = "switchScenario"
  /\ UNCHANGED <<loaded, mode, scenarios, isAnalyzing, activeTool,
                 layers, analysisTimer>>
  /\ AppQuiet /\ AppFrame

\* clearMap, lines 276-281
clearMap ==
  /\ draw' = DrawDeleteAll(draw)
  /\ status' = ClearedMsg
  /\ effects' = <<SetStatus(ClearedMsg)>>
  /\ lastOp' = "clearMap"
  /\ UNCHANGED <<loaded, mode>>
  /\ AppStateSame /\ AppQuiet /\ AppFrame

\* the layers the checked runs toggle
ToggledLayers == {"heatRisk"}

NextApp ==
  \/ AppMapLoad
  \/ AppMapError
  \/ \E tool \in Tools : handleToolClick(tool)
  \/ \E layerId \in ToggledLayers : toggleLayer(layerId)
  \/ \E c \in Coords : AppUserCreate(c)
  \/ \E i \in 1..MaxFeatures + MaxHat : \E c \in Coords : AppUserUpdate(i, c)
  \/ \E i \in 1..MaxFeatures + MaxHat : AppUserDelete(i)
  \/ handleExport
  \/ \E file \in HandFiles \cup Artifacts : handleImport(file)
  \/ analyzeNow
  \/ AnalysisDone
  \/ \E answer \in PromptAnswers : createNewScenario(answer)
  \/ \E scenario \in Range(scenarios) : switchScenario(scenario)
  \/ clearMap

InitApp == InitShared /\ status = AppInitialStatus /\ InitViewVars /\ InitAppVars

SpecApp == InitApp /\ [][NextApp]_vars

\* the timer of line 244 fires once its 2 s have passed: the browser runs a
\* timer that is due, no handler cancels it
SpecAppFair == SpecApp /\ WF_vars(AnalysisDone)

(* ============ properties of the backend revision (SpecView) ============ *)
EffectsOfKind(es, kind) == SelectSeq(es, LAMBDA e : e.kind = kind)
GetsInFlight(infl) == SumOver(infl, {r \in ReqKinds : r.method = "GET"})
PostsInFlight(infl) == SumOver(infl, {r \in ReqKinds : r.method = "POST"})
Quiet == InflightCount(inflight) = 0 /\ ~timerPending /\ mode = "simple_select"

\* the identifiers of a rendered feature and an editable one agree where the
\* response carried one
SameUpToSynthesized(rendered, editable) ==
  /\ Len(rendered) = Len(editable)
  /\ Contents(rendered) = Contents(editable)
  /\ \A i \in 1..Len(rendered) :
       IF rendered[i].id = NoId THEN editable[i].id[1] = "f"
       ELSE editable[i].id = rendered[i].id

\* C1: when a fetch for the viewport is answered with a success status and a
\* collection R and fetchFeaturesForView runs to its end, the rendered source
\* holds exactly R and the editable layer holds the same features, in number,
\* geometry and properties, the features without identifier carrying a
\* synthesized one; nothing else is left in the editable layer.
C1_SuccessfulSyncMirrorsResponse ==
  (lastOp = "getOk" /\ loaded) =>
    /\ sourceData = lastBody
    /\ SameUpToSynthesized(lastBody.features, draw)

\* C4: the identifiers synthesized for the features of one response are
\* pairwise different, whatever the clock and the random draws.
C4_SynthesizedIdsDistinct ==
  lastOp = "getOk" =>
    \A i, j \in 1..Len(fc.features) :
      (i # j /\ lastBody.features[i].id = NoId /\ lastBody.features[j].id = NoId)
        => fc.features[i].id # fc.features[j].id

\* C3: after the load, whenever nothing is mid-way (no request in flight, no
\* debounce pending, no shape being drawn) the editable layer and the rendered
\* source hold the same features.
C3_EditableEqualsRendered ==
  (loaded /\ Quiet) =>
    \/ SameUpToSynthesized(sourceData.features, draw)
    \/ sourceData.features = DrawGetAll(draw)

\* C2: a failed viewport fetch (transport error, non-success status) leaves
\* the rendered source and the editable layer as they were, logs the error
\* and ends with the status 'Failed to load viewport features': the handling
\* of the failure changes neither set, whatever they hold by then.
C2_FailedFetchChangesNothing ==
  [][(\E r \in ReqKinds : \E why \in FailKinds : GetFail(r, why))
       => /\ draw' = draw
          /\ sourceData' = sourceData
          /\ status' = FetchFailedMsg
          /\ effects'[Len(effects')] = SetStatus(FetchFailedMsg)
          /\ EffectsOfKind(effects', "log") # <<>>
          /\ EffectsOfKind(effects', "GET") = <<>>]_vars

C2_FailedFetchOverFeatures ==
  /\ lastOp = "getFail"
  /\ status = FetchFailedMsg
  /\ Len(draw) = 2
  /\ sourceData = FC(DrawGetAll(draw))

\* C5: a failed POST of saveToBackend sets the status 'Save failed' and raises
\* the alert; neither the save nor its failure issues a viewport fetch, and
\* neither changes the editable layer or the rendered source.
C5_FailedSaveReportsAndKeeps ==
  [][/\ (\E r \in ReqKinds : \E why \in FailKinds : PostFail(r, why))
          => /\ status' = SaveFailedMsg
             /\ effects'[Len(effects')] = Eff("alert", SaveAlert, <<>>)
             /\ EffectsOfKind(effects', "GET") = <<>>
             /\ GetsInFlight(inflight') = GetsInFlight(inflight)
             /\ draw' = draw
             /\ sourceData' = sourceData
     /\ SaveClick
          => /\ EffectsOfKind(effects', "GET") = <<>>
             /\ GetsInFlight(inflight') = GetsInFlight(inflight)
             /\ draw' = draw]_vars

C5_FailedSaveOverFeatures ==
  /\ lastOp = "postFail"
  /\ status = SaveFailedMsg
  /\ draw # <<>>
  /\ GetsInFlight(inflight) = 0

\* C6: a save whose POST is answered with success issues exactly one viewport
\* fetch, when the answer arrives and not before, for the viewport the map has
\* at that moment; when a fetch succeeds the editable layer holds features of
\* the response only, those the backend identified under the backend's
\* identifier.
C6_SavedThenOneFetch ==
  /\ [][/\ (\E r \in ReqKinds : PostOk(r))
             => /\ EffectsOfKind(effects', "GET")
                     = <<Eff("GET", FeaturesUrl(viewport), <<>>)>>
                /\ inflight'[Request("GET", "call", FeaturesUrl(viewport))] = 1
                /\ GetsInFlight(inflight') = GetsInFlight(inflight) + 1
                /\ PostsInFlight(inflight') = PostsInFlight(inflight) - 1
        /\ SaveClick => GetsInFlight(inflight') = GetsInFlight(inflight)]_vars
  /\ [](lastOp = "getOk" =>
          /\ \A i \in 1..Len(draw) : draw[i] \in Range(fc.features)
          /\ \A i \in 1..Len(lastBody.features) :
               (lastBody.features[i].id # NoId /\ lastBody.features[i].geom # NullGeom)
                 => lastBody.features[i] \in Range(draw))

C6_ReloadForMovedViewport ==
  /\ lastOp = "postOk"
  /\ viewport # InitialViewport
  /\ inflight[Request("GET", "call", FeaturesUrl(viewport))] = 1
  /\ \E i \in 1..Len(draw) : draw[i].id[1] = "f"

\* C7: saveToBackend posts the whole editable layer as it is when save is
\* invoked, as one collection; an empty layer is posted as a collection with
\* no features; a success answer sets the status 'Saved to backend' (before
\* the reload sets its own) and raises no alert.
C7_SaveSendsWholeLayer ==
  [][/\ SaveClick
          => /\ Len(EffectsOfKind(effects', "POST")) = 1
             /\ EffectsOfKind(effects', "POST")[1].text = SaveUrl
             /\ JsonParse(EffectsOfKind(effects', "POST")[1].body)
                  = [ok |-> TRUE, member |-> "array", features |-> DrawGetAll(draw)]
             /\ PostsInFlight(inflight') = PostsInFlight(inflight) + 1
     /\ (\E r \in ReqKinds : PostOk(r))
          => /\ effects'[1] = SetStatus(SavedMsg)
             /\ EffectsOfKind(effects', "alert") = <<>>]_vars

C7_EmptyLayerPosted ==
  /\ lastOp = "saveClick"
  /\ draw = <<>>
  /\ EffectsOfKind(effects, "POST") = <<Eff("POST", SaveUrl, Stringify(<<>>))>>
  /\ PostsInFlight(inflight) = 1

\* C13: settle events are coalesced by one trailing timer: a settle event
\* issues no fetch and, once the handlers are registered, leaves exactly one
\* timer pending (the pending one is cancelled and a new one armed for 250
\* ms); a pending timer ends only by firing; the firing issues exactly one
\* fetch, for the viewport of that moment; a fetch is issued by nothing but
\* the load, a firing timer and a successful save.
C13_SettleEventsCoalesced ==
  [][/\ lastOp' \in {"moveend", "zoomend"}
          => /\ inflight' = inflight
             /\ EffectsOfKind(effects', "GET") = <<>>
             /\ registered => (timerPending' /\ effects' = <<Eff("timer", "250", <<>>)>>)
     /\ lastOp' = "timerFire"
          => /\ timerPending /\ ~timerPending'
             /\ EffectsOfKind(effects', "GET") = <<Eff("GET", FeaturesUrl(viewport), <<>>)>>
             /\ inflight'[Request("GET", "call", FeaturesUrl(viewport))] = 1
             /\ GetsInFlight(inflight') = GetsInFlight(inflight) + 1
     /\ (timerPending /\ ~timerPending') => lastOp' = "timerFire"
     /\ lastOp' \notin {"mapLoad", "timerFire", "postOk"}
          => \A k \in FetchKinds : inflight'[k] <= inflight[k]]_vars

C13_OneFetchAfterBurst ==
  /\ lastOp = "timerFire"
  /\ viewport # InitialViewport
  /\ ~timerPending
  /\ GetsInFlight(inflight) = 1
  /\ inflight[Request("GET", "call", FeaturesUrl(viewport))] = 1

\* C14: a viewport fetch in flight is never aborted: issuing a fetch keeps
\* every pending one in flight (as superseded), and a fetch leaves only by
\* being answered; every successful response, superseded or not, is applied
\* when it arrives: the rendered source becomes its body and the editable
\* layer is rebuilt from it alone, so the layers hold what resolved last.
C14_LastResolvedWins ==
  [][/\ lastOp' = "getOk"
          => /\ answered'.method = "GET" /\ inflight[answered'] > 0
             /\ inflight' = DelReq(inflight, answered')
             /\ loaded => sourceData' = lastBody'
             /\ draw' = AddEach(<<>>, fc'.features)
     /\ lastOp' \in {"mapLoad", "timerFire", "postOk"}
          => \A k \in FetchKinds :
               inflight'[Superseded(k)] = inflight[Superseded(k)] + inflight[k]
     /\ lastOp' \notin {"mapLoad", "timerFire", "postOk", "getOk", "getMalformed", "getFail"}
          => \A k \in FetchKinds :
               /\ inflight'[k] = inflight[k]
               /\ inflight'[Superseded(k)] = inflight[Superseded(k)]]_vars

C14_StaleResponseHeld ==
  /\ lastOp = "getOk"
  /\ ~answered.latest
  /\ answered.url # FeaturesUrl(viewport)
  /\ InflightCount(inflight) = 0
  /\ loaded
  /\ sourceData = lastBody
  /\ Len(draw) = Len(lastBody.features)
  /\ draw # <<>>

InitialKinds == {k \in ReqKinds : k.origin = "initial"}

\* C19: the initial fetch is issued once, by the load handler; the settle
\* handlers are registered only by the step that settles the initial fetch,
\* whatever its outcome, and stay registered; while the initial fetch is in
\* flight no handler is registered and no debounce timer is pending, so no
\* timer fires and a settle event changes only the viewport: it arms no
\* timer and issues no fetch.
C19_InitialFetchBeforeHandlers ==
  /\ []((\E k \in InitialKinds : inflight[k] > 0) => (loaded /\ ~registered))
  /\ [](~registered => ~timerPending)
  /\ [][/\ lastOp' = "mapLoad"
             => /\ ~loaded /\ loaded'
                /\ inflight'[Request("GET", "initial", FeaturesUrl(viewport))] = 1
        /\ lastOp' # "mapLoad"
             => /\ loaded' = loaded
                /\ \A k \in InitialKinds : ~k.latest \/ inflight'[k] <= inflight[k]
        /\ lastOp' = "timerFire"
             => (registered /\ \A k \in InitialKinds : inflight[k] = 0)
        /\ (lastOp' \in {"moveend", "zoomend"} /\ ~registered)
             => /\ ~timerPending' /\ effects' = <<>> /\ inflight' = inflight
                /\ draw' = draw /\ sourceData' = sourceData
        /\ registered => registered'
        /\ (~registered /\ registered')
             => /\ lastOp' \in {"getOk", "getMalformed", "getFail"}
                /\ \E k \in InitialKinds : inflight'[k] = inflight[k] - 1]_vars

C19_InitialResponseForLeftViewport ==
  /\ lastOp = "getOk"
  /\ answered.origin = "initial"
  /\ answered.url # FeaturesUrl(viewport)
  /\ registered /\ ~timerPending
  /\ InflightCount(inflight) = 0
  /\ sourceData = lastBody
  /\ draw # <<>>

\* C17: a feature leaves the editable layer only in a step where the user
\* deletes it in the widget or where a successfully answered viewport fetch
\* replaces the whole set; no other step, a failed fetch included, removes a
\* feature.
C17_RemovedOnlyByDeleteOrRefetch ==
  [][(\E i \in 1..Len(draw) : draw[i].id \notin Ids(draw'))
       => lastOp' \in {"draw.delete", "getOk"}]_vars

\* C18: a viewport fetch that ends with the status 'Failed to load viewport
\* features' leaves the rendered source and the editable layer holding what
\* they held before it was answered, whatever made it fail, a body without a
\* features list included.
C18_FailureKeepsHeldState ==
  [][(lastOp' \in {"getFail", "getMalformed"} /\ status' = FetchFailedMsg)
       => (DrawGetAll(draw') = DrawGetAll(draw) /\ sourceData' = sourceData)]_vars

\* C15: no failure is retried: the handling of a failed fetch or a failed
\* save issues no request and arms no timer; a request is issued only by the
\* load, a firing debounce timer, a save click and a successful save, and
\* each of them issues at most one GET and at most one POST.
C15_NoAutomaticRetry ==
  [][IF lastOp' \in {"mapLoad", "timerFire", "saveClick", "postOk"}
     THEN /\ Len(EffectsOfKind(effects', "GET")) <= 1
          /\ Len(EffectsOfKind(effects', "POST")) <= 1
          /\ GetsInFlight(inflight') <= GetsInFlight(inflight) + 1
          /\ PostsInFlight(inflight') <= PostsInFlight(inflight) + 1
     ELSE /\ \A k \in ReqKinds : inflight'[k] <= inflight[k]
          /\ \A i \in 1..Len(effects') : effects'[i].kind \notin {"GET", "POST"}
          /\ lastOp' \in {"getFail", "getMalformed", "postFail"}
               => /\ InflightCount(inflight') = InflightCount(inflight) - 1
                  /\ timerPending' = timerPending
                  /\ EffectsOfKind(effects', "timer") = <<>>]_vars

C15_FailureLeftAlone ==
  /\ lastOp = "getFail"
  /\ registered
  /\ ~timerPending
  /\ InflightCount(inflight) = 0
  /\ status = FetchFailedMsg

SetEqualByContent(a, b) == Range(Contents(a)) = Range(Contents(b))
Downloads(es) == EffectsOfKind(es, "download")
IsFeatureCollectionText(text) == JsonParse(text).ok /\ JsonParse(text).member = "array"

\* C8: the file handleExport makes of a non-empty layer S, imported by
\* handleImport into any prior layer (S itself included), leaves a layer
\* that is set-equal to S by geometry and properties; so does importing it
\* once more.
C8_ExportImportRoundTrip ==
  /\ []((lastOp = "handleImport" /\ lastFile.exported) =>
          /\ SetEqualByContent(draw, lastFile.src)
          /\ status = ImportedMsg(Len(lastFile.src)))
  /\ [][(handleExport /\ draw # <<>>) =>
          /\ Len(Downloads(effects')) = 1
          /\ \A prior \in ArtifactStores \cup {<<>>, draw} :
               LET once == Imported(prior, Downloads(effects')[1].body, status')
                   twice == Imported(once.store, Downloads(effects')[1].body, once.status)
               IN  /\ SetEqualByContent(once.store, draw)
                   /\ SetEqualByContent(twice.store, draw)
                   /\ once.status = ImportedMsg(Len(draw))]_vars

C8_ArtifactImported ==
  /\ lastOp = "handleImport"
  /\ lastFile.exported
  /\ Len(lastFile.src) = 2
  /\ Len(draw) = 2
  /\ status = ImportedMsg(2)

\* C9: a file that does not parse as a feature collection (no JSON, or JSON
\* without a features array) makes handleImport set the status
\* 'Error: Invalid GeoJSON file' and leave the editable layer as it was; a
\* file that parses leaves nothing in the layer but features of the file.
C9_BadFileReportedLayerKept ==
  [][(\E file \in HandFiles \cup Artifacts : handleImport(file)) =>
       IF IsFeatureCollectionText(lastFile'.text)
       THEN \A i \in 1..Len(draw') :
              Content(draw'[i]) \in Range(Contents(JsonParse(lastFile'.text).features))
       ELSE /\ status' = ImportErrorMsg
            /\ effects' = <<SetStatus(ImportErrorMsg)>>
            /\ draw' = draw]_vars

\* C10: handleExport of an empty layer makes no artifact and only sets the
\* status 'No features to export'; of a non-empty layer it makes one artifact
\* whose features are those of the layer; the layer, the scenario list and
\* the analysis data are left as they were.
C10_ExportArtifactOrRefusal ==
  [][handleExport =>
       /\ UNCHANGED <<draw, scenarios, currentScenario, analysisData, isAnalyzing>>
       /\ IF DrawGetAll(draw) = <<>>
          THEN /\ effects' = <<SetStatus(NoExportMsg)>>
               /\ status' = NoExportMsg
          ELSE /\ Len(Downloads(effects')) = 1
               /\ Downloads(effects')[1].text = ExportName(currentScenario)
               /\ JsonParse(Downloads(effects')[1].body)
                    = [ok |-> TRUE, member |-> "array", features |-> DrawGetAll(draw)]
               /\ status' = ExportedMsg(Len(draw))]_vars

C10_ExportedBesideAnalysis ==
  /\ lastOp = "handleExport"
  /\ Len(draw) = 2
  /\ Len(Downloads(effects)) = 1
  /\ analysisData # NoAnalysis
  /\ Len(scenarios) > 2

\* C11: analyzeNow on an empty editable layer only sets the status 'Draw some
\* features first to analyze': it arms no timer, issues no request and
\* leaves analysisData, isAnalyzing and the layer as they were.
C11_NothingToAnalyze ==
  [][(lastOp' = "analyzeNow" /\ Len(DrawGetAll(draw)) = 0)
       => /\ effects' = <<SetStatus(NoAnalyzeMsg)>>
          /\ status' = NoAnalyzeMsg
          /\ analysisData' = analysisData
          /\ isAnalyzing' = isAnalyzing
          /\ analysisTimer' = analysisTimer
          /\ inflight' = inflight
          /\ draw' = draw]_vars

C11_RefusedBesideOldResults ==
  /\ lastOp = "analyzeNow"
  /\ DrawGetAll(draw) = <<>>
  /\ status = NoAnalyzeMsg
  /\ analysisData = <<mockAnalysisData>>
  /\ ~isAnalyzing /\ ~analysisTimer

\* C12: analyzeNow on a non-empty layer sets isAnalyzing and arms the 2 s
\* timer; isAnalyzing is set exactly while that timer is pending; the
\* analysis eventually completes, and its completion stores the fixed mock
\* payload, sets the status 'Analysis complete!' and clears isAnalyzing.
C12_AnalysisCompletes ==
  /\ [](isAnalyzing <=> analysisTimer)
  /\ [][/\ (lastOp' = "analyzeNow" /\ Len(DrawGetAll(draw)) > 0)
             => /\ isAnalyzing' /\ analysisTimer'
                /\ status' = AnalyzingMsg
                /\ effects' = <<SetStatus(AnalyzingMsg), Eff("timer", "2000", <<>>)>>
        /\ lastOp' = "analysisDone"
             => /\ isAnalyzing /\ ~isAnalyzing'
                /\ analysisData' = <<mockAnalysisData>>
                /\ status' = AnalysisDoneMsg
        /\ (isAnalyzing /\ ~isAnalyzing') => lastOp' = "analysisDone"]_vars
  /\ (isAnalyzing ~> (lastOp = "analysisDone" /\ ~isAnalyzing
                        /\ analysisData = <<mockAnalysisData>>
                        /\ status = AnalysisDoneMsg))

C12_AnalysisCompleted ==
  /\ lastOp = "analysisDone"
  /\ ~isAnalyzing
  /\ analysisData = <<mockAnalysisData>>
  /\ status = AnalysisDoneMsg
  /\ DrawGetAll(draw) # <<>>

\* C20: in the state a scenario switch or a scenario creation leaves,
\* analysisData is null and the next step does not set it: results appear
\* only when an analysis started after the switch completes.
C20_NoResultsFromBeforeSwitch ==
  [][(lastOp = "switchScenario" \/ (lastOp = "createNewScenario" /\ effects # <<>>))
       => (analysisData = NoAnalysis /\ analysisData' = NoAnalysis)]_vars

\* the answers to prompt() that name no new scenario: null, "" and a name of
\* the list
Refused(answer) ==
  answer = <<>> \/ answer = <<"">> \/ answer[1] \in Range(scenarios)

\* C21: the scenario list holds no name twice and no empty name, and
\* currentScenario is one of its names; a step only appends to the list;
\* createNewScenario answered with a cancelled prompt, an empty name or a
\* name of the list changes neither the list, the current scenario, the
\* editable layer, the analysis data nor the status.
C21_ScenarioListKept ==
  /\ [](/\ \A i, j \in 1..Len(scenarios) : i # j => scenarios[i] # scenarios[j]
        /\ "" \notin Range(scenarios)
        /\ currentScenario \in Range(scenarios))
  /\ [][/\ Len(scenarios') >= Len(scenarios)
        /\ SubSeq(scenarios', 1, Len(scenarios)) = scenarios
        /\ lastOp' \notin {"createNewScenario", "switchScenario"}
             => (scenarios' = scenarios /\ currentScenario' = currentScenario)
        /\ lastOp' = "createNewScenario"
             => \A answer \in PromptAnswers :
                  (Refused(answer) /\ createNewScenario(answer))
                    => /\ UNCHANGED <<scenarios, currentScenario, draw, analysisData, status>>
                       /\ effects' = <<>>]_vars

C21_KnownNameRefused ==
  /\ lastOp = "createNewScenario"
  /\ effects = <<>>
  /\ Len(scenarios) = 3
  /\ currentScenario = scenarios[3]
  /\ DrawGetAll(draw) # <<>>
  /\ analysisData # NoAnalysis

====
